---------------------------- MODULE Spec2Model ----------------------------
(***************************************************************************)
(* Single-player video playlist player (src/src/components/VideoPlayer.tsx).*)
(*                                                                         *)
(* The React component's state, the media element it drives through        *)
(* videoRef, the play() promises in flight, the registered listeners and   *)
(* the control-hide timer are the variables.  Every event handler is one   *)
(* action; a handler that changes currentIndex includes the re-render and  *)
(* the effects keyed on [currentIndex] that React runs before the next     *)
(* event is delivered.                                                     *)
(*                                                                         *)
(* Spec      the player: navigation, playback, mute, control-hide timer    *)
(*           and unmount, with "ended" possible whenever playback runs.    *)
(* SpecTime  navigation and playback with the media timeline: metadata,    *)
(*           playback time, seeking and the progress bar.                  *)
(* SpecVolume  the volume keys from every volume of the range.             *)
(* SpecGoTo  goTo as a function of any integer argument.                   *)
(* SpecAbsent  Spec with togglePlay also called after the unmount.         *)
(***************************************************************************)
EXTENDS Integers, Sequences, FiniteSets

\* ------------------------------------------------------------------ bounds
\* Largest playlist length explored (playlist is imported, its length fixed).
MaxN == 3
\* Largest number of play() promises in flight at once.
MaxPending == 2
\* Milliseconds of simulated time that pass in one Tick.
TickMs == 1250
\* Arguments given to goTo in SpecGoTo range over -MaxArg..MaxArg.
MaxArg == 8
\* Volumes are multiples of 1 / VolGrid: VolGrid stands for the volume 1.
VolGrid == 100
\* Item i lasts ItemDuration * (i + 1) units of media time.
ItemDuration == 2
\* A click on the progress track has ratio r / RatioDen, r in 0..RatioDen.
RatioDen == 2

\* ------------------------------------------------------- program constants
\* setTimeout(..., 2500)
HideDelay == 2500
\* volume + 0.1, volume - 0.1: the step is one VolStepDen-th of the range.
VolStepDen == 10

VARIABLES
    N,                  \* playlist.length
    mounted,            \* the component is mounted: videoRef.current is the element
    currentIndex,       \* useState(0)
    playing,            \* useState(false)
    currentTime,        \* useState(0)
    duration,           \* useState(0)
    muted,              \* useState(false)
    showControls,       \* useState(true)
    vPaused,            \* videoRef.current.paused
    vMuted,             \* videoRef.current.muted
    vVolume,            \* videoRef.current.volume, in units of 1 / VolGrid
    vPosition,          \* the element's playback position
    vStartPos,          \* the element's default playback start position
    vDuration,          \* videoRef.current.duration, 0 = NaN: no metadata yet
    plays,              \* play() promises not yet settled, oldest first
    unhandledRejection, \* a rejected play() promise had no handler
    hideTimer,          \* hideTimer.current: id of the last timer armed, 0 = undefined
    timers,             \* timers armed with setTimeout and neither fired nor cleared
    onEndIdx,           \* currentIndex captured by the registered onEnd listener
    onKeyIdx,           \* currentIndex captured by the registered onKey listener
    registered,         \* number of listeners the component has registered, per event
    lastOp,             \* history: the last playback operation
    replaced,           \* history: the last pointer movement cleared a pending timer
    wasHidden           \* history: the last pointer movement found the controls hidden

vars == <<N, mounted, currentIndex, playing, currentTime, duration, muted,
          showControls, vPaused, vMuted, vVolume, vPosition, vStartPos,
          vDuration, plays, unhandledRejection, hideTimer, timers, onEndIdx, onKeyIdx, registered,
          lastOp, replaced, wasHidden>>

reactVars == <<currentIndex, playing>>
mediaVars == <<vPaused, plays>>
audioVars == <<muted, vMuted, vVolume>>
timeVars == <<currentTime, duration, vPosition, vStartPos, vDuration>>
listenerVars == <<onEndIdx, onKeyIdx, registered>>
timerVars == <<showControls, hideTimer, timers, replaced, wasHidden>>

Max(a, b) == IF a >= b THEN a ELSE b
Min(a, b) == IF a <= b THEN a ELSE b

\* ---------------------------------------------------------- pure functions
\* JavaScript's % : the remainder takes the sign of the dividend.
JsRem(a, n) == IF a >= 0 THEN a % n ELSE -((-a) % n)

\* goTo, mutated: no "+ playlist.length" before the remainder.
NormalizeNoAdd(index, n) == JsRem(index, n)

\* goTo, mutated: clamps to the ends instead of wrapping.
NormalizeClamp(index, n) == IF index < 0 THEN 0 ELSE IF index > n - 1 THEN n - 1 ELSE index

\* const next = (index + playlist.length) % playlist.length
Normalize(index, n) == JsRem(index + n, n)

\* playlist[currentIndex] is an item: the render can read video.src.
Alive == currentIndex \in 0..(N - 1)

\* ------------------------------------------------------- the media element
\* The promise v.play() returns.  A denied attempt is rejected at once and
\* leaves the element paused; an allowed one stays open until playback starts.
PlayPromise(origin, caught, allowed) ==
    [origin |-> origin, caught |-> caught,
     fate |-> IF allowed THEN "open" ELSE "denied"]

\* v.pause() and v.load() reject the open play promises with AbortError.
Abort(ps) ==
    [i \in DOMAIN ps |->
        IF ps[i].fate = "open" THEN [ps[i] EXCEPT !.fate = "aborted"] ELSE ps[i]]

Rejected(p) == p.fate \in {"denied", "aborted"}

\* Item i's media length (the element learns it with the metadata).
Dur(i) == ItemDuration * (i + 1)

\* videoRef.current.currentTime, read: the default playback start position
\* while one is set, else the playback position.
ElCurrentTime == IF vStartPos # 0 THEN vStartPos ELSE vPosition

\* videoRef.current.currentTime = t: a seek, clamped to the media, once the
\* metadata is loaded; before that it sets the default playback start
\* position, which the element seeks to when the metadata arrives.
SetCurrentTime(t) ==
    IF vDuration # 0
    THEN /\ vPosition' = Min(t, vDuration)
         /\ UNCHANGED vStartPos
    ELSE /\ vStartPos' = t
         /\ UNCHANGED vPosition

\* Playback is running: the element is not paused and no play is still open.
Running == ~vPaused /\ \A i \in DOMAIN plays : plays[i].fate # "open"

\* ---------------------------------------------------------------- effects
\* useEffect(..., [currentIndex]): v.load(); if (playing) v.play().catch(() => {})
\* run in the render that follows an index change; nowPlaying is that
\* render's value of playing.  v.load() puts the element back at position 0
\* with no metadata.
ReloadEffect(nowPlaying, allowed) ==
    /\ vPosition' = 0
    /\ vDuration' = 0
    /\ IF nowPlaying
       THEN /\ plays' = Append(Abort(plays), PlayPromise("effect", TRUE, allowed))
            /\ vPaused' = ~allowed
       ELSE /\ plays' = Abort(plays)
            /\ vPaused' = TRUE

\* The events the component listens to: three on the element, one on window.
Events == {"timeupdate", "loadedmetadata", "ended", "keydown"}

\* The effects' cleanups, mutated: no listener is removed.
RemoveListenersNoop(r) == r

\* The effects' cleanups: removeEventListener for each listener the effect added.
RemoveListeners(r) == [e \in Events |-> Max(0, r[e] - 1)]

\* The effects' bodies: addEventListener for each event.
AddListeners(r) == [e \in Events |-> r[e] + 1]

\* The two listener effects, mutated: their dependency arrays lack
\* currentIndex, so the listeners of the first render stay registered.
ListenerEffectsOnce(idx) == UNCHANGED <<onEndIdx, onKeyIdx, registered>>

\* The two listener effects, keyed on currentIndex: the old listeners are
\* removed and new ones capture the new render's currentIndex.
ListenerEffects(idx) ==
    /\ onEndIdx' = idx
    /\ onKeyIdx' = idx
    /\ registered' = AddListeners(RemoveListeners(registered))

\* ------------------------------------------------------------- operations
\* goTo(index), followed by the re-render and its effects.  pausedNow is the
\* element's paused flag when the handler runs.  A render whose currentIndex
\* is no index of the playlist throws, and no effect runs.
GoTo(index, allowed, pausedNow) ==
    LET next == Normalize(index, N) IN
    /\ currentIndex' = next
    /\ playing' = TRUE
    /\ IF next # currentIndex /\ next \in 0..(N - 1)
       THEN /\ ReloadEffect(TRUE, allowed)
            /\ ListenerEffects(next)
       ELSE /\ vPaused' = pausedNow
            /\ UNCHANGED <<plays, listenerVars, vPosition, vDuration>>

\* togglePlay, mutated: no "if (!v) return".
TogglePlayNoCheck(allowed) ==
    /\ IF vPaused
       THEN /\ plays' = Append(plays, PlayPromise("toggle", FALSE, allowed))
            /\ vPaused' = ~allowed
            /\ vPosition' = IF allowed /\ vDuration # 0 /\ vPosition = vDuration
                            THEN 0 ELSE vPosition
            /\ playing' = TRUE
       ELSE /\ plays' = Abort(plays)
            /\ vPaused' = TRUE
            /\ vPosition' = vPosition
            /\ playing' = FALSE
    /\ lastOp' = IF lastOp \in {"toggle", "toggle2"} THEN "toggle2" ELSE "toggle"
    /\ UNCHANGED <<currentTime, duration, vStartPos, vDuration>>
    /\ UNCHANGED <<N, mounted, audioVars, currentIndex, unhandledRejection,
                   listenerVars, timerVars>>

\* togglePlay, mutated: it tests the playing state, not v.paused.
TogglePlayFromState(allowed) ==
    IF ~mounted
    THEN /\ lastOp' = "absent"
         /\ UNCHANGED <<N, mounted, reactVars, audioVars, timeVars, mediaVars,
                        unhandledRejection, listenerVars, timerVars>>
    ELSE /\ IF ~playing
            THEN /\ plays' = Append(plays, PlayPromise("toggle", FALSE, allowed))
                 /\ vPaused' = ~allowed
                 /\ vPosition' = IF allowed /\ vDuration # 0 /\ vPosition = vDuration
                                 THEN 0 ELSE vPosition
                 /\ playing' = TRUE
            ELSE /\ plays' = Abort(plays)
                 /\ vPaused' = TRUE
                 /\ vPosition' = vPosition
                 /\ playing' = FALSE
         /\ lastOp' = IF lastOp \in {"toggle", "toggle2"} THEN "toggle2" ELSE "toggle"
         /\ UNCHANGED <<currentTime, duration, vStartPos, vDuration>>
         /\ UNCHANGED <<N, mounted, audioVars, currentIndex, unhandledRejection,
                        listenerVars, timerVars>>

\* togglePlay(): const v = videoRef.current; if (!v) return; then play or
\* pause by v.paused.  The ref is null exactly while the component is not
\* mounted.  A play() at the end of the media starts again from 0.
TogglePlay(allowed) ==
    IF ~mounted
    THEN /\ lastOp' = "absent"
         /\ UNCHANGED <<N, mounted, reactVars, audioVars, timeVars, mediaVars,
                        unhandledRejection, listenerVars, timerVars>>
    ELSE /\ IF vPaused
            THEN /\ plays' = Append(plays, PlayPromise("toggle", FALSE, allowed))
                 /\ vPaused' = ~allowed
                 /\ vPosition' = IF allowed /\ vDuration # 0 /\ vPosition = vDuration
                                 THEN 0 ELSE vPosition
                 /\ playing' = TRUE
            ELSE /\ plays' = Abort(plays)
                 /\ vPaused' = TRUE
                 /\ vPosition' = vPosition
                 /\ playing' = FALSE
         /\ lastOp' = IF lastOp \in {"toggle", "toggle2"} THEN "toggle2" ELSE "toggle"
         /\ UNCHANGED <<currentTime, duration, vStartPos, vDuration>>
         /\ UNCHANGED <<N, mounted, audioVars, currentIndex, unhandledRejection,
                        listenerVars, timerVars>>

Navigate(index, allowed, pausedNow, op) ==
    /\ Alive
    /\ Len(plays) < MaxPending
    /\ GoTo(index, allowed, pausedNow)
    /\ lastOp' = IF op = "next" /\ lastOp \in {"next", "next2"} THEN "next2" ELSE op
    /\ UNCHANGED <<N, mounted, audioVars, currentTime, duration, vStartPos,
                   unhandledRejection, timerVars>>

\* ---------------------------------------------------------------- actions
\* Sidebar button i: onClick={() => goTo(i)}
ClickItem ==
    /\ mounted
    /\ \E i \in 0..(N - 1), allowed \in BOOLEAN :
          Navigate(i, allowed, vPaused, "item")

\* SkipBack button: goTo(currentIndex - 1)
ClickPrev ==
    /\ mounted
    /\ Alive
    /\ \E allowed \in BOOLEAN : Navigate(currentIndex - 1, allowed, vPaused, "prev")

\* SkipForward button: goTo(currentIndex + 1)
ClickNext ==
    /\ mounted
    /\ Alive
    /\ \E allowed \in BOOLEAN : Navigate(currentIndex + 1, allowed, vPaused, "next")

\* Click on the video area or on the play/pause button.
ClickPlay ==
    /\ mounted
    /\ Alive
    /\ Len(plays) < MaxPending
    /\ \E allowed \in BOOLEAN : TogglePlay(allowed)

\* The updater given to setMuted, mutated: the element gets m, not !m.
MutedUpdaterSame(m) == [state |-> ~m, element |-> m]

\* m => { if (videoRef.current) videoRef.current.muted = !m; return !m; }
MutedUpdater(m) == [state |-> ~m, element |-> ~m]

\* setMuted(updater), and the render that passes muted to the element.
ToggleMute ==
    /\ muted' = MutedUpdater(muted).state
    /\ vMuted' = IF mounted THEN MutedUpdater(muted).element ELSE vMuted
    /\ UNCHANGED <<N, mounted, vVolume, timeVars, reactVars, mediaVars, unhandledRejection,
                   listenerVars, timerVars, lastOp>>

\* Mute button: onClick={() => setMuted(...)}
ClickMute ==
    /\ mounted
    /\ Alive
    /\ ToggleMute

\* window keydown with the given code, handled by the registered onKey.
KeyPress(code, allowed) ==
    /\ registered["keydown"] > 0
    /\ Alive
    /\ CASE code = "Space" -> Len(plays) < MaxPending /\ TogglePlay(allowed)
         [] code = "ArrowRight" -> Navigate(onKeyIdx + 1, allowed, vPaused, "next")
         [] code = "ArrowLeft" -> Navigate(onKeyIdx - 1, allowed, vPaused, "prev")
         [] code = "KeyM" -> ToggleMute

\* Space, the left and right arrows and M.
KeyDown ==
    \E code \in {"Space", "ArrowRight", "ArrowLeft", "KeyM"}, allowed \in BOOLEAN :
        KeyPress(code, allowed)

\* One volume step, 0.1 of the range.
VolStep == VolGrid \div VolStepDen

\* ArrowUp, mutated: no Math.min.
VolumeUpNoClamp(v) == v + VolStep

\* Math.min(1, volume + 0.1)
VolumeUp(v) == IF v + VolStep > VolGrid THEN VolGrid ELSE v + VolStep

\* Math.max(0, volume - 0.1)
VolumeDown(v) == Max(0, v - VolStep)

\* window keydown with ArrowUp or ArrowDown: the volume branches of onKey,
\* the only code that reads or writes the element's volume.
KeyVolume ==
    \E code \in {"ArrowUp", "ArrowDown"} :
        /\ registered["keydown"] > 0
        /\ Alive
        /\ mounted
        /\ vVolume' = IF code = "ArrowUp" THEN VolumeUp(vVolume) ELSE VolumeDown(vVolume)
        /\ lastOp' = IF vVolume' = vVolume + VolStep \/ vVolume' = vVolume - VolStep
                      THEN code ELSE "clamped"
        /\ UNCHANGED <<N, mounted, muted, vMuted, timeVars, reactVars, mediaVars,
                       unhandledRejection, listenerVars, timerVars>>

\* The element has the metadata of the current item: it seeks to the default
\* playback start position if one was set and fires "loadedmetadata", handled
\* by the registered onMeta: setDuration(v.duration).
LoadedMetadata ==
    /\ mounted
    /\ Alive
    /\ vDuration = 0
    /\ vDuration' = Dur(currentIndex)
    /\ vPosition' = Min(vStartPos, Dur(currentIndex))
    /\ vStartPos' = 0
    /\ duration' = IF registered["loadedmetadata"] > 0 THEN vDuration' ELSE duration
    /\ UNCHANGED <<N, mounted, audioVars, currentTime, reactVars, mediaVars,
                   unhandledRejection, listenerVars, timerVars, lastOp>>

\* One unit of media plays and the element fires "timeupdate", handled by the
\* registered onTime: setCurrentTime(v.currentTime).
TimeUpdate ==
    /\ registered["timeupdate"] > 0
    /\ Running
    /\ vDuration # 0
    /\ vPosition < vDuration
    /\ vPosition' = vPosition + 1
    /\ currentTime' = vPosition'
    /\ UNCHANGED <<N, mounted, audioVars, duration, vStartPos, vDuration, reactVars,
                   mediaVars, unhandledRejection, listenerVars, timerVars, lastOp>>

\* The "timeupdate" the element fires after load() or a seek moved the
\* playback position, handled by the registered onTime.
PositionChanged ==
    /\ registered["timeupdate"] > 0
    /\ currentTime # vPosition
    /\ currentTime' = ElCurrentTime
    /\ currentTime' # currentTime
    /\ UNCHANGED <<N, mounted, audioVars, duration, vPosition, vStartPos, vDuration,
                   reactVars, mediaVars, unhandledRejection, listenerVars, timerVars,
                   lastOp>>

\* handleProgressClick with ratio r / RatioDen:
\* videoRef.current.currentTime = ratio * duration
ProgressClick(r) ==
    /\ mounted
    /\ Alive
    /\ SetCurrentTime((r * duration) \div RatioDen)
    /\ lastOp' = "seek"
    /\ UNCHANGED <<N, mounted, audioVars, currentTime, duration, vDuration, reactVars,
                   mediaVars, unhandledRejection, listenerVars, timerVars>>

\* A click anywhere on the progress track.
HandleProgressClick == \E r \in 0..RatioDen : ProgressClick(r)

\* const progress = duration ? (currentTime / duration) * 100 : 0, in whole
\* percent.
Progress == IF duration # 0 THEN (currentTime * 100) \div duration ELSE 0

\* The element reaches the end of the media: it pauses itself and fires
\* "ended", handled by the registered onEnd.
MediaEnded ==
    /\ registered["ended"] > 0
    /\ Running
    /\ \E allowed \in BOOLEAN : Navigate(onEndIdx + 1, allowed, TRUE, "ended")

\* The oldest play() promise settles.  A rejection nobody handles is reported
\* as an unhandled rejection; the component reacts to neither outcome.
SettlePlay ==
    /\ plays # <<>>
    /\ plays' = Tail(plays)
    /\ unhandledRejection' =
          (unhandledRejection \/ (Rejected(Head(plays)) /\ ~Head(plays).caught))
    /\ lastOp' = IF lastOp \in {"toggle2", "settled2"} THEN "settled2" ELSE "other"
    /\ UNCHANGED <<N, mounted, audioVars, timeVars, reactVars, vPaused, listenerVars,
                   timerVars>>

\* ------------------------------------------------------ control-hide timer
\* clearTimeout, mutated: does nothing.
ClearTimeoutNoop(ts, id) == ts

\* clearTimeout(id)
ClearTimeout(ts, id) == {t \in ts : t.id # id}

\* An id the host has not handed out to a pending timer, and not the one the
\* ref still holds.
FreshId(ts, ref) ==
    CHOOSE i \in 1..(Cardinality(ts) + 2) :
        /\ i # ref
        /\ \A t \in ts : t.id # i
        /\ \A j \in 1..(i - 1) : j = ref \/ \E t \in ts : t.id = j

\* handleMouseMove: the timer's callback closes over this render's playing.
MouseMove ==
    /\ mounted
    /\ Alive
    /\ LET kept == ClearTimeout(timers, hideTimer)
           id == FreshId(kept, hideTimer)
       IN /\ showControls' = TRUE
          /\ timers' = kept \cup {[id |-> id, playing |-> playing, remaining |-> HideDelay]}
          /\ hideTimer' = id
          /\ replaced' = (\E t \in timers : t.id = hideTimer)
          /\ wasHidden' = ~showControls
    /\ UNCHANGED <<N, mounted, audioVars, timeVars, reactVars, mediaVars, unhandledRejection,
                   listenerVars, lastOp>>

\* TickMs of time pass with no event.
Tick ==
    /\ \E t \in timers : t.remaining > 0
    /\ timers' = {[t EXCEPT !.remaining = Max(0, @ - TickMs)] : t \in timers}
    /\ UNCHANGED <<N, mounted, audioVars, timeVars, reactVars, mediaVars,
                   unhandledRejection, listenerVars,
                   lastOp, showControls, hideTimer, replaced, wasHidden>>

\* The timer callback, mutated: the test of playing is inverted.
ExpireInverted(t) ==
    /\ t \in timers
    /\ t.remaining = 0
    /\ timers' = timers \ {t}
    /\ showControls' = IF mounted /\ ~t.playing THEN FALSE ELSE showControls
    /\ UNCHANGED <<N, mounted, audioVars, timeVars, reactVars, mediaVars,
                   unhandledRejection, listenerVars,
                   lastOp, hideTimer, replaced, wasHidden>>

\* The callback of timer t runs: if (playing) setShowControls(false), with
\* the playing it captured.  React drops a state update of an unmounted
\* component.
Expire(t) ==
    /\ t \in timers
    /\ t.remaining = 0
    /\ timers' = timers \ {t}
    /\ showControls' = IF mounted /\ t.playing THEN FALSE ELSE showControls
    /\ UNCHANGED <<N, mounted, audioVars, timeVars, reactVars, mediaVars,
                   unhandledRejection, listenerVars,
                   lastOp, hideTimer, replaced, wasHidden>>

HideTimerExpire == \E t \in timers : Expire(t)

\* ---------------------------------------------------------------- teardown
\* The component unmounts: the cleanups of the two listener effects run, the
\* ref is cleared, and the element, removed from the document, pauses and
\* rejects its open play promises.  No cleanup clears the control-hide timer.
Unmount ==
    /\ mounted
    /\ mounted' = FALSE
    /\ registered' = RemoveListeners(registered)
    /\ vPaused' = TRUE
    /\ plays' = Abort(plays)
    /\ lastOp' = "unmount"
    /\ UNCHANGED <<N, audioVars, timeVars, reactVars, unhandledRejection, onEndIdx, onKeyIdx,
                   timerVars>>

\* ----------------------------------------------------------- specification
\* The first render and its effects, but for the element's volume.
InitPlayer ==
    /\ N \in 1..MaxN
    /\ mounted = TRUE
    /\ currentIndex = 0
    /\ playing = FALSE
    /\ currentTime = 0
    /\ duration = 0
    /\ vPosition = 0
    /\ vStartPos = 0
    /\ vDuration = 0
    /\ muted = FALSE
    /\ showControls = TRUE
    /\ vPaused = TRUE
    /\ vMuted = FALSE
    /\ plays = <<>>
    /\ unhandledRejection = FALSE
    /\ hideTimer = 0
    /\ timers = {}
    /\ onEndIdx = 0
    /\ onKeyIdx = 0
    /\ registered = [e \in Events |-> 1]
    /\ lastOp = "init"
    /\ replaced = FALSE
    /\ wasHidden = FALSE

\* A new media element has volume 1.
Init ==
    /\ InitPlayer
    /\ vVolume = VolGrid

\* The player with the media timeline abstracted: "ended" may arrive whenever
\* playback is running.  SpecTime below adds metadata, playback time and seeking.
Next ==
    \/ ClickItem
    \/ ClickPrev
    \/ ClickNext
    \/ ClickPlay
    \/ ClickMute
    \/ KeyDown
    \/ MediaEnded
    \/ SettlePlay
    \/ MouseMove
    \/ Tick
    \/ HideTimerExpire
    \/ Unmount

Spec == Init /\ [][Next]_vars

\* goTo called with any integer argument, as a function of its argument.
CallGoTo(k) ==
    /\ Alive
    /\ \E allowed \in BOOLEAN : Navigate(k, allowed, vPaused, "call")

NextGoTo ==
    \/ \E k \in (-MaxArg)..MaxArg : CallGoTo(k)
    \/ SettlePlay

SpecGoTo == Init /\ [][NextGoTo]_vars

\* "ended" fired when the playback position has reached the end of the media.
MediaEndedAtEnd ==
    /\ vDuration # 0
    /\ vPosition = vDuration
    /\ MediaEnded

\* The player with the media timeline: navigation and playback together with
\* metadata, playback time and seeking.  The control-hide timer neither reads
\* nor writes any of these and is left out.
NextTime ==
    \/ ClickItem
    \/ ClickPrev
    \/ ClickNext
    \/ ClickPlay
    \/ KeyDown
    \/ HandleProgressClick
    \/ LoadedMetadata
    \/ TimeUpdate
    \/ PositionChanged
    \/ MediaEndedAtEnd
    \/ SettlePlay

SpecTime == Init /\ [][NextTime]_vars

\* togglePlay called after the unmount: it is a stable callback (useCallback
\* with no dependencies) that outlives the component's listeners.
StaleTogglePlay ==
    /\ ~mounted
    /\ \E allowed \in BOOLEAN : TogglePlay(allowed)

NextAbsent ==
    \/ Next
    \/ StaleTogglePlay

SpecAbsent == Init /\ [][NextAbsent]_vars

\* The volume keys pressed from any volume of the range.
InitVolume ==
    /\ InitPlayer
    /\ vVolume \in 0..VolGrid

NextVolume == KeyVolume

SpecVolume == InitVolume /\ [][NextVolume]_vars

\* ------------------------------------------------------------------ claims
\* ((k % N) + N) % N, the proper modulo the specification states for goTo.
ProperMod(k, n) == JsRem(JsRem(k, n) + n, n)

\* C1: currentIndex is an index of the playlist, 0 <= currentIndex < N, in
\* every state reachable by sidebar clicks, prev/next clicks, arrow keys and
\* "ended" events.
ThmC1_IndexInRange == currentIndex \in 0..(N - 1)

\* C1 witness: a previous-command at index 0 has wrapped to the last item.
WitC1_PrevWrapped == N >= 2 /\ lastOp = "prev" /\ currentIndex = N - 1

\* C2: for every integer k, goTo(k) sets currentIndex to ((k % N) + N) % N.
CexC2_GoToProperModulo ==
    [][\A k \in (-MaxArg)..MaxArg :
          CallGoTo(k) => currentIndex' = ProperMod(k, N)]_vars

\* C3: an "ended" event delivered at index i moves to i + 1, or to 0 from the
\* last item, and sets playing.
ThmC3_EndedAdvances ==
    [][MediaEnded =>
          /\ currentIndex' = (IF currentIndex < N - 1 THEN currentIndex + 1 ELSE 0)
          /\ playing']_vars

\* C3 witness: "ended" at the last item of a longer playlist has wrapped to 0.
WitC3_EndedWrapped == N >= 2 /\ lastOp = "ended" /\ currentIndex = 0 /\ playing

\* C4: whenever no play attempt is pending, playing equals "the element is
\* not paused".
CexC4_PlayingMatchesElement == (plays = <<>>) => (playing = ~vPaused)

\* C5: when a denied play attempt has settled, nothing else is pending and the
\* element is paused, playing is false.
CexC5_DeniedRevertsToPaused ==
    [][(SettlePlay /\ Head(plays).fate = "denied" /\ plays' = <<>> /\ vPaused')
          => ~playing']_vars

\* C6: no play attempt ends as an unhandled rejection.
CexC6_NoUnhandledRejection == ~unhandledRejection

\* C7: after two togglePlay calls with no settled outcome between them, once
\* every pending play has settled, playing equals "the element is not paused".
CexC7_DoubleToggleReconciles ==
    (lastOp \in {"toggle2", "settled2"} /\ plays = <<>>) => (playing = ~vPaused)

\* C8: the expiry of the control-hide timer hides the controls if playing is
\* true when it expires, and leaves them as they are if playing is false then.
CexC8_ExpiryUsesCurrentPlaying ==
    [][\A t \in timers :
          Expire(t) => showControls' = (IF playing THEN FALSE ELSE showControls)]_vars

\* C9: with the player mounted and playing when the pointer last moved and
\* when the period ends, the expiry of the full period hides the controls and
\* leaves no timer to hide them again; a pointer movement shows the controls
\* and restarts the full period; and the controls are hidden only by the
\* expiry of the period the last movement started.
ThmC9_HideAfterInactivity ==
    [][/\ \A t \in timers :
             (mounted /\ Expire(t) /\ t.playing /\ playing) =>
                 (~showControls' /\ timers' = {})
       /\ MouseMove =>
             (showControls' /\ \A t \in timers' : t.remaining = HideDelay)
       /\ (showControls /\ ~showControls') =>
             \E t \in timers :
                 t.id = hideTimer /\ t.remaining = 0 /\ t \notin timers']_vars

\* C9 witness: the controls are hidden, the player playing, after a period
\* that a movement had restarted has expired.
WitC9_HiddenWhilePlaying == ~showControls /\ playing /\ timers = {} /\ replaced

\* C10: at most one control-hide timer is pending, and it is the one
\* hideTimer.current refers to.
ThmC10_OneTimerPending ==
    /\ Cardinality(timers) <= 1
    /\ \A t \in timers : t.id = hideTimer

\* C10 witness: a movement has cleared a pending timer and armed a new one.
WitC10_TimerReplaced == replaced /\ Cardinality(timers) = 1

\* C11: after teardown every listener the component registered is removed and
\* no control-hide timer is left pending, so that no late event or expiry can
\* run a handler of the unmounted player.
CexC11_TeardownCancelsAll ==
    ~mounted => (timers = {} /\ \A e \in Events : registered[e] = 0)

\* C12: the element's muted flag equals muted in every reachable state; a mute
\* toggle flips both in one step, and goTo and togglePlay change neither.
ThmC12_MutedMatchesElement ==
    /\ [](vMuted = muted)
    /\ [][\/ (muted' = ~muted /\ vMuted' = ~vMuted)
           \/ ~(ClickMute \/ KeyPress("KeyM", TRUE))]_vars
    /\ [][\/ UNCHANGED <<muted, vMuted>>
           \/ ~(ClickItem \/ ClickPrev \/ ClickNext \/ ClickPlay \/ MediaEnded
                  \/ \E code \in {"Space", "ArrowRight", "ArrowLeft"}, allowed \in BOOLEAN :
                        KeyPress(code, allowed))]_vars

\* C12 witness: muted, and then a navigation that reloaded the element.
WitC12_MutedAcrossReload ==
    muted /\ vMuted /\ lastOp = "next" /\ currentIndex = 1 /\ plays # <<>>

\* C13: a click on the progress track made while the element has no metadata
\* of the current item writes nothing to the element: neither its playback
\* position nor the position it will start from changes.
CexC13_SeekWithoutDurationIsNoop ==
    [][\A r \in 0..RatioDen :
          (ProgressClick(r) /\ vDuration = 0) => UNCHANGED <<vPosition, vStartPos>>]_vars

\* C14: the displayed progress is currentTime / duration * 100 of the current
\* item while its duration is known, and 0 while it is not, the time between
\* an index change and the new item's metadata included.
CexC14_ProgressOfCurrentItem ==
    Progress = (IF vDuration # 0 THEN (currentTime * 100) \div vDuration ELSE 0)

\* C15: the volume stays within [0, 1] under ArrowUp and ArrowDown from any
\* volume of the range, and a step that would leave the range ends at the
\* bound it would cross.
ThmC15_VolumeInRange ==
    /\ [](vVolume \in 0..VolGrid)
    /\ [][KeyVolume =>
              /\ (vVolume + VolStep > VolGrid /\ vVolume' > vVolume) => vVolume' = VolGrid
              /\ (vVolume - VolStep < 0 /\ vVolume' < vVolume) => vVolume' = 0
              /\ vVolume' \in {vVolume + VolStep, vVolume - VolStep, 0, VolGrid}]_vars

\* C15 witness: an ArrowUp from above 0.9 was clamped to 1.
WitC15_ClampedAtOne == lastOp = "clamped" /\ vVolume = VolGrid

\* C16: while the player is mounted a pointer movement is always accepted and
\* shows the controls, and with the element paused, also after a rejected
\* play, togglePlay is accepted and issues a new play attempt.
ThmC16_DegradedRecoverable ==
    /\ []((mounted /\ ~showControls) => ENABLED (MouseMove /\ showControls'))
    /\ [][showControls' \/ ~MouseMove]_vars
    /\ []((mounted /\ vPaused /\ Len(plays) < MaxPending) => ENABLED ClickPlay)
    /\ [][\/ ~vPaused
           \/ (Len(plays') = Len(plays) + 1 /\ plays'[Len(plays')].origin = "toggle")
           \/ ~(ClickPlay \/ \E allowed \in BOOLEAN : KeyPress("Space", allowed))]_vars

\* C16 witness: a pointer movement has shown hidden controls, and after a
\* rejected play a togglePlay has started playback.
WitC16_Recovered ==
    /\ mounted /\ wasHidden /\ showControls
    /\ unhandledRejection /\ lastOp = "toggle" /\ ~vPaused

\* C17: togglePlay called while videoRef.current is null issues no play and no
\* pause and changes no state of the player or of the element.
ThmC17_TogglePlayAbsentNoop ==
    [][\A allowed \in BOOLEAN :
          (~mounted /\ TogglePlay(allowed)) =>
              UNCHANGED <<N, mounted, reactVars, audioVars, timeVars, mediaVars,
                          unhandledRejection, listenerVars, timerVars>>]_vars

\* C17 witness: togglePlay has been called on the unmounted player.
WitC17_CalledWhileAbsent == ~mounted /\ lastOp = "absent"

ThmC19_OneHandlerPerEvent ==
    \A e \in Events : registered[e] = (IF mounted THEN 1 ELSE 0)

\* C19 witness: the player was unmounted after an index change.
WitC19_UnmountedAfterIndexChange ==
    ~mounted /\ currentIndex # 0 /\ \A e \in Events : registered[e] = 0

=============================================================================
